---- MODULE Spec2Model ----
(***************************************************************************)
(* py-message: send_email, send_gmail, send_sms, send_pushover and the     *)
(* phone-number normalizer _validate_phone_number                          *)
(* (src/src/py_message/__init__.py).                                       *)
(*                                                                         *)
(* A Python str is a sequence of one-character strings, so that digit      *)
(* extraction, length tests and prefixing are computed and not assumed.    *)
(* An Optional[str] is a record [some, val]; None has some = FALSE.        *)
(***************************************************************************)
EXTENDS Integers, Sequences, FiniteSets, TLC

VARIABLES env, pc, call, transport, outcome, log, smtp

vars == <<env, pc, call, transport, outcome, log, smtp>>

(***************************************************************************)
(* Bounds of the model.                                                    *)
(***************************************************************************)
\* longest raw string handed to the normalizer on its own
MaxRawLen == 13
\* longest recipient list handed to send_sms
MaxRecipients == 2

(***************************************************************************)
(* Program constants.                                                      *)
(***************************************************************************)
\* len(phone_number) < 10
MinDigits == 10
\* len(phone_number) > 12
MaxDigits == 12
\* elif len(phone_number) == 10
UsLen == 10
\* requests.codes.ok
StatusOk == 200
\* smtp_port: Optional[int] = 465
DefaultSmtpPort == 465
\* smtp_port=465
GmailPort == 465

(***************************************************************************)
(* Values.                                                                 *)
(***************************************************************************)
None == [some |-> FALSE, val |-> <<>>]
Some(s) == [some |-> TRUE, val |-> s]

DigitSeq == <<"0", "1", "2", "3", "4", "5", "6", "7", "8", "9">>
Digit == {DigitSeq[i] : i \in 1..10}
OtherSeq == <<"-", " ", "a", "+">>

IsDigit(c) == c \in Digit

\* what a call produced: a returned value or a raised error
\* error: the Python exception type, the kind of failure it stands for, and what
\* its message names (a configuration key, or the offending phone number)
NoError == [type |-> "", kind |-> "", detail |-> <<>>]
NoOutcome == [kind |-> "none", value |-> <<>>, error |-> NoError]
Return(v) == [kind |-> "return", value |-> v, error |-> NoError]
Raise(type, kind, detail) ==
    [kind |-> "raise", value |-> <<>>, error |-> [type |-> type, kind |-> kind, detail |-> detail]]

(***************************************************************************)
(* _validate_phone_number                                                  *)
(***************************************************************************)
RECURSIVE findall_scan(_, _, _, _)
findall_scan(s, i, cur, acc) ==
    IF i > Len(s)
    THEN IF Len(cur) > 0 THEN Append(acc, cur) ELSE acc
    ELSE IF IsDigit(s[i])
         THEN findall_scan(s, i + 1, Append(cur, s[i]), acc)
         ELSE findall_scan(s, i + 1, <<>>, IF Len(cur) > 0 THEN Append(acc, cur) ELSE acc)

\* re.findall(r"\d+", s): the maximal runs of digits of s, left to right
findall_digits(s) == findall_scan(s, 1, <<>>, <<>>)

RECURSIVE join(_)
\* "".join(matches)
join(matches) ==
    IF Len(matches) = 0 THEN <<>> ELSE Head(matches) \o join(Tail(matches))

\* a plausible slip: the upper limit taken one too low
validate_phone_number_tight(phone_number) ==
    LET matches == findall_digits(phone_number)
        joined == IF Len(matches) > 0 THEN join(matches) ELSE phone_number
    IN  IF (Len(joined) < MinDigits) \/ (Len(joined) > MaxDigits - 1)
        THEN Raise("ValueError", "InvalidPhoneNumber", joined)
        ELSE IF Len(joined) = UsLen
             THEN Return(<<"+">> \o (<<"1">> \o joined))
             ELSE Return(<<"+">> \o joined)

validate_phone_number(phone_number) ==
    LET matches == findall_digits(phone_number)
        \* if len(matches): phone_number = "".join(matches)
        joined == IF Len(matches) > 0 THEN join(matches) ELSE phone_number
    IN  IF (Len(joined) < MinDigits) \/ (Len(joined) > MaxDigits)
        THEN Raise("ValueError", "InvalidPhoneNumber", joined)
        ELSE IF Len(joined) = UsLen
             THEN Return(<<"+">> \o (<<"1">> \o joined))
             ELSE Return(<<"+">> \o joined)

(***************************************************************************)
(* Raw inputs of the normalizer: every placement of digits and non-digits  *)
(* in a string of up to MaxRawLen characters; the character at a position  *)
(* depends on the position, so that order and content are observable.      *)
(***************************************************************************)
RawOf(mask) ==
    [i \in 1..Len(mask) |->
        IF mask[i] THEN DigitSeq[(i % 10) + 1] ELSE OtherSeq[(i % 4) + 1]]

RawStrings == {RawOf(mask) : mask \in UNION {[1..n -> BOOLEAN] : n \in 0..MaxRawLen}}

NoRecipients == [tag |-> "none", str |-> <<>>, list |-> <<>>]

NoCall ==
    [op |-> "none", raw |-> <<>>, recipients |-> NoRecipients,
     sender |-> None, password |-> None, api_token |-> None, user_key |-> None]

NoSmtp ==
    [opened |-> 0, closed |-> 0, failed |-> FALSE, host |-> <<>>, port |-> 0,
     sender |-> None, password |-> None, recipients |-> <<>>]

EmptyEnv ==
    [k \in {"GMAIL_USERNAME", "GMAIL_PASSWORD", "SMS_NUMBER", "AZURE_SMS_CONNECTION_STRING",
            "AZURE_SMS_NUMBER", "PUSHOVER_API_KEY", "PUSHOVER_USER_KEY"} |-> None]

\* the call _validate_phone_number(call.raw)
ValidateCall ==
    /\ pc = "idle"
    /\ call.op = "validate"
    /\ outcome' = validate_phone_number(call.raw)
    /\ pc' = "done"
    /\ UNCHANGED <<env, call, transport, log, smtp>>

\* the normalizer on its own: the raw input is drawn at the start
InitNorm ==
    /\ env = EmptyEnv
    /\ pc = "idle"
    /\ call \in {[NoCall EXCEPT !.op = "validate", !.raw = raw] : raw \in RawStrings}
    /\ transport = <<>>
    /\ outcome = NoOutcome
    /\ log = <<>>
    /\ smtp = NoSmtp

NextNorm == ValidateCall

SpecNorm == InitNorm /\ [][NextNorm]_vars

(***************************************************************************)
(* Inputs of the dispatch operations.  A credential or an address is a str *)
(* of opaque symbols; the empty str is <<>>.                               *)
(***************************************************************************)
Ten == <<"5", "5", "5", "-", "1", "2", "3", "-", "4", "5", "6", "7">>
Twelve == <<"+", "4", "4", " ", "2", "0", " ", "7", "9", "4", "6", " ", "0", "9", "5", "8">>
Flowers == <<"1", "-", "8", "0", "0", "-", "F", "L", "O", "W", "E", "R", "S">>
Eleven == <<"1", "8", "0", "0", "5", "5", "5", "0", "1", "9", "9">>
Short == <<"1", "2", "3">>

PhoneSamples == {Ten, Twelve, Flowers, Eleven}

Str(s) == [tag |-> "str", str |-> s, list |-> <<>>]
List(l) == [tag |-> "list", str |-> <<>>, list |-> l]

SmsRecipientArgs ==
    {NoRecipients} \cup {Str(p) : p \in PhoneSamples}
        \cup {List(l) : l \in UNION {[1..n -> PhoneSamples] : n \in 0..MaxRecipients}}

\* the configuration store holds the keys of one channel at a time; the
\* operations of a channel read no other channel's keys
SmsEnvs ==
    {[EmptyEnv EXCEPT !["SMS_NUMBER"] = sn, !["AZURE_SMS_CONNECTION_STRING"] = cs,
                      !["AZURE_SMS_NUMBER"] = an] :
        sn \in {None, Some(<<>>), Some(Ten), Some(Flowers)},
        cs \in {None, Some(<<>>), Some(<<"env_connection">>)},
        an \in {None, Some(<<>>), Some(Eleven), Some(Short)}}

GmailEnvs ==
    {[EmptyEnv EXCEPT !["GMAIL_USERNAME"] = gu, !["GMAIL_PASSWORD"] = gp] :
        gu \in {None, Some(<<>>), Some(<<"env_user">>)},
        gp \in {None, Some(<<>>), Some(<<"env_password">>)}}

PushoverEnvs ==
    {[EmptyEnv EXCEPT !["PUSHOVER_API_KEY"] = pa, !["PUSHOVER_USER_KEY"] = pu] :
        pa \in {None, Some(<<>>), Some(<<"env_token">>)},
        pu \in {None, Some(<<>>), Some(<<"env_user_key">>)}}

Envs == SmsEnvs \cup GmailEnvs \cup PushoverEnvs

Body == <<"body">>

\* os.environ.get(key)
environ_get(key) == env[key]

Debug(about) == [level |-> "debug", about |-> about]
Error(about) == [level |-> "error", about |-> about]

(***************************************************************************)
(* send_sms                                                                *)
(***************************************************************************)
\* recipients after the default from SMS_NUMBER
sms_recipients(recipients) ==
    IF recipients.tag = "none"
    THEN IF environ_get("SMS_NUMBER").some
         THEN Str(environ_get("SMS_NUMBER").val)
         ELSE NoRecipients
    ELSE recipients

\* index of the first element of a list that the normalizer rejects, 0 if none
FirstRejected(l) ==
    LET bad == {i \in 1..Len(l) : validate_phone_number(l[i]).kind = "raise"}
    IN  IF bad = {} THEN 0 ELSE CHOOSE i \in bad : \A j \in bad : i <= j

\* a plausible slip: recipients that do not normalize are skipped
sms_normalize_lenient(recipients) ==
    IF recipients.tag = "str"
    THEN LET v == validate_phone_number(recipients.str)
         IN  IF v.kind = "raise" THEN v ELSE Return(Str(v.value))
    ELSE LET good == SelectSeq(recipients.list,
                               LAMBDA ph : validate_phone_number(ph).kind = "return")
         IN  Return(List([i \in 1..Len(good) |-> validate_phone_number(good[i]).value]))

\* a plausible slip: the normalized list comes out in reverse order
sms_normalize_reversed(recipients) ==
    IF recipients.tag = "str"
    THEN LET v == validate_phone_number(recipients.str)
         IN  IF v.kind = "raise" THEN v ELSE Return(Str(v.value))
    ELSE LET l == recipients.list
             k == FirstRejected(l)
         IN  IF k > 0
             THEN validate_phone_number(l[k])
             ELSE Return(List([i \in 1..Len(l) |->
                                 validate_phone_number(l[Len(l) + 1 - i]).value]))

\* a str stays a str, a list is normalized element by element, in order; the
\* first element that is rejected raises
sms_normalize(recipients) ==
    IF recipients.tag = "str"
    THEN LET v == validate_phone_number(recipients.str)
         IN  IF v.kind = "raise" THEN v ELSE Return(Str(v.value))
    ELSE LET l == recipients.list
             k == FirstRejected(l)
         IN  IF k > 0
             THEN validate_phone_number(l[k])
             ELSE Return(List([i \in 1..Len(l) |-> validate_phone_number(l[i]).value]))

Credentials(conn, from) == [connection_string |-> conn, from_ |-> from]

\* a plausible slip: the connection string is not checked
sms_credentials_unchecked ==
    LET azure_sms_connection_string == environ_get("AZURE_SMS_CONNECTION_STRING")
        azure_sms_number == environ_get("AZURE_SMS_NUMBER")
    IN  IF ~azure_sms_number.some
        THEN Raise("EnvironmentError", "MissingCredentials", <<"AZURE_SMS_NUMBER">>)
        ELSE LET v == validate_phone_number(azure_sms_number.val)
             IN  IF v.kind = "raise"
                 THEN v
                 ELSE Return(Credentials(azure_sms_connection_string.val, v.value))

\* a plausible slip: the number is looked up before the connection string
sms_credentials_swapped ==
    LET azure_sms_connection_string == environ_get("AZURE_SMS_CONNECTION_STRING")
        azure_sms_number == environ_get("AZURE_SMS_NUMBER")
    IN  IF ~azure_sms_number.some
        THEN Raise("EnvironmentError", "MissingCredentials", <<"AZURE_SMS_NUMBER">>)
        ELSE IF ~azure_sms_connection_string.some
        THEN Raise("EnvironmentError", "MissingCredentials", <<"AZURE_SMS_CONNECTION_STRING">>)
        ELSE LET v == validate_phone_number(azure_sms_number.val)
             IN  IF v.kind = "raise"
                 THEN v
                 ELSE Return(Credentials(azure_sms_connection_string.val, v.value))

\* a plausible variant: an empty value counts as an absent one
sms_credentials_nonempty ==
    LET azure_sms_connection_string == environ_get("AZURE_SMS_CONNECTION_STRING")
        azure_sms_number == environ_get("AZURE_SMS_NUMBER")
    IN  IF ~azure_sms_connection_string.some \/ azure_sms_connection_string.val = <<>>
        THEN Raise("EnvironmentError", "MissingCredentials", <<"AZURE_SMS_CONNECTION_STRING">>)
        ELSE IF ~azure_sms_number.some \/ azure_sms_number.val = <<>>
        THEN Raise("EnvironmentError", "MissingCredentials", <<"AZURE_SMS_NUMBER">>)
        ELSE LET v == validate_phone_number(azure_sms_number.val)
             IN  IF v.kind = "raise"
                 THEN v
                 ELSE Return(Credentials(azure_sms_connection_string.val, v.value))

\* the connection string, then the sending number, then its normalization
sms_credentials ==
    LET azure_sms_connection_string == environ_get("AZURE_SMS_CONNECTION_STRING")
        azure_sms_number == environ_get("AZURE_SMS_NUMBER")
    IN  IF ~azure_sms_connection_string.some
        THEN Raise("EnvironmentError", "MissingCredentials", <<"AZURE_SMS_CONNECTION_STRING">>)
        ELSE IF ~azure_sms_number.some
        THEN Raise("EnvironmentError", "MissingCredentials", <<"AZURE_SMS_NUMBER">>)
        ELSE LET v == validate_phone_number(azure_sms_number.val)
             IN  IF v.kind = "raise"
                 THEN v
                 ELSE Return(Credentials(azure_sms_connection_string.val, v.value))

\* the numbers the SMS client addresses: it takes one number or a list of them
Addressed(to) == IF to.tag = "str" THEN <<to.str>> ELSE to.list

\* for resp in sms_responses: an error line or a debug line
sms_log(sms_responses) ==
    [i \in 1..Len(sms_responses) |->
        IF ~sms_responses[i].successful
        THEN Error(sms_responses[i].to)
        ELSE Debug(sms_responses[i].to)]

\* the stages of send_sms that come before the transport: the first failing
\* stage raises, otherwise the normalized recipients and the credentials
sms_prepare(recipients) ==
    LET given == sms_recipients(recipients)
    IN  IF given.tag = "none"
        THEN Raise("ValueError", "MissingRecipients", <<>>)
        ELSE LET to == sms_normalize(given)
             IN  IF to.kind = "raise"
                 THEN to
                 ELSE LET cred == sms_credentials
                      IN  IF cred.kind = "raise"
                          THEN cred
                          ELSE Return([to |-> to.value, cred |-> cred.value])

\* send_sms(Body, recipients); the SMS client either fails to be created, or
\* its send fails, or it answers one result per addressed number
send_sms(recipients, created, sent, successful) ==
    /\ pc = "idle"
    /\ call.op = "none"
    /\ call' = [NoCall EXCEPT !.op = "send_sms", !.recipients = recipients]
    /\ pc' = "done"
    /\ LET prep == sms_prepare(recipients)
       IN  IF prep.kind = "raise"
           THEN /\ outcome' = prep
                /\ transport' = <<>>
                /\ log' = <<>>
           ELSE LET create == [op |-> "sms_create",
                               connection_string |-> prep.value.cred.connection_string]
                    numbers == Addressed(prep.value.to)
                    sms_responses ==
                        [i \in 1..Len(numbers) |->
                            [to |-> numbers[i], successful |-> successful[i]]]
                    send == [op |-> "sms_send", from_ |-> prep.value.cred.from_,
                             to |-> prep.value.to, message |-> Body,
                             responses |-> IF sent THEN sms_responses ELSE <<>>]
                IN  IF ~created
                    THEN /\ outcome' = Raise("TransportError", "Transport", <<>>)
                         /\ transport' = <<create>>
                         /\ log' = <<>>
                    ELSE IF ~sent
                    THEN /\ outcome' = Raise("TransportError", "Transport", <<>>)
                         /\ transport' = <<create, send>>
                         /\ log' = <<>>
                    ELSE /\ outcome' = Return(sms_responses)
                         /\ transport' = <<create, send>>
                         /\ log' = sms_log(sms_responses)
    /\ UNCHANGED <<env, smtp>>

\* how many numbers a call addresses when it reaches the transport
Addressees(recipients) ==
    LET prep == sms_prepare(recipients)
    IN  IF prep.kind = "raise" THEN 0 ELSE Len(Addressed(prep.value.to))

SendSms ==
    /\ pc = "idle"
    /\ \E recipients \in SmsRecipientArgs, created \in BOOLEAN, sent \in BOOLEAN :
        \E successful \in [1..Addressees(recipients) -> BOOLEAN] :
            send_sms(recipients, created, sent, successful)

(***************************************************************************)
(* send_pushover                                                           *)
(***************************************************************************)
PushoverUrl == <<"https://api.pushover.net/1/messages.json">>

\* the answers of the Pushover endpoint: a status code and the "error" entry
\* of its JSON body (None when the body has no such entry)
StatusCodes == {StatusOk, 201, 400, 500}
Responses ==
    {[answered |-> TRUE, status_code |-> c, error |-> e] :
        c \in StatusCodes, e \in {None, Some(<<"invalid">>)}}
\* the POST fails in the network and there is no answer
Unanswered == [answered |-> FALSE, status_code |-> 0, error |-> None]

\* a plausible slip: only client and server errors count as failures
pushover_log_from_400(res) ==
    IF res.status_code >= 400 THEN Error(res.error) ELSE Debug(None)

\* the line logged for a response
pushover_log(res) ==
    IF res.status_code # StatusOk THEN Error(res.error) ELSE Debug(None)

\* each credential on its own: the argument, else the environment
pushover_credentials(api_token, user_key) ==
    [user |-> IF ~user_key.some THEN environ_get("PUSHOVER_USER_KEY") ELSE user_key,
     token |-> IF ~api_token.some THEN environ_get("PUSHOVER_API_KEY") ELSE api_token]

\* send_pushover(Body, api_token, user_key); the POST either fails in the
\* network or is answered by res
send_pushover(api_token, user_key, res) ==
    /\ pc = "idle"
    /\ call.op = "none"
    /\ call' = [NoCall EXCEPT !.op = "send_pushover", !.api_token = api_token,
                              !.user_key = user_key]
    /\ pc' = "done"
    /\ LET cred == pushover_credentials(api_token, user_key)
           post == [op |-> "post", url |-> PushoverUrl, token |-> cred.token,
                    user |-> cred.user, message |-> Body, sound |-> <<"bugle">>,
                    response |-> res]
           origin == <<Debug(IF user_key.some THEN Some(<<"parameter">>)
                                              ELSE Some(<<"environment">>)),
                       Debug(IF api_token.some THEN Some(<<"parameter">>)
                                               ELSE Some(<<"environment">>))>>
       IN  /\ transport' = <<post>>
           /\ IF ~res.answered
              THEN /\ outcome' = Raise("TransportError", "Transport", <<>>)
                   /\ log' = origin
              ELSE /\ outcome' = Return(res)
                   /\ log' = Append(origin, pushover_log(res))
    /\ UNCHANGED <<env, smtp>>

ArgTokens == {None, Some(<<"arg_token">>)}
ArgUserKeys == {None, Some(<<"arg_user_key">>)}

SendPushover ==
    /\ pc = "idle"
    /\ \E api_token \in ArgTokens, user_key \in ArgUserKeys,
          res \in Responses \cup {Unanswered} :
        send_pushover(api_token, user_key, res)

(***************************************************************************)
(* send_email and send_gmail                                               *)
(***************************************************************************)
GmailHost == <<"smtp.gmail.com">>
OtherHost == <<"smtp.example.org">>

EmailRecipientArgs ==
    {Str(<<"a@example.org">>), List(<<>>), List(<<<<"a@example.org">>, <<"b@example.org">>>>)}

\* if isinstance(recipients, str): recipients = [recipients]
email_recipients(recipients) ==
    IF recipients.tag = "str" THEN <<recipients.str>> ELSE recipients.list

\* the body of send_email up to the with statement: the session's parameters
email_session(smtp_host, smtp_port, sender, password, recipients) ==
    [opened |-> 0, closed |-> 0, failed |-> FALSE, host |-> smtp_host, port |-> smtp_port,
     sender |-> sender, password |-> password, recipients |-> email_recipients(recipients)]

\* send_email(smtp_host, sender, password, recipients, Body)
send_email(smtp_host, sender, password, recipients) ==
    /\ pc = "idle"
    /\ call.op = "none"
    /\ call' = [NoCall EXCEPT !.op = "send_email", !.sender = sender, !.password = password]
    /\ smtp' = email_session(smtp_host, DefaultSmtpPort, sender, password, recipients)
    /\ pc' = "smtp_connect"
    /\ UNCHANGED <<env, transport, outcome, log>>

\* both arguments, or else both values of the environment
gmail_credentials(sender, password) ==
    IF sender.some /\ password.some
    THEN [sender |-> sender, password |-> password]
    ELSE [sender |-> environ_get("GMAIL_USERNAME"),
          password |-> environ_get("GMAIL_PASSWORD")]

\* send_gmail(recipients, Body, sender, password): resolves, logs, and goes on
\* into send_email whatever was resolved
send_gmail(sender, password, recipients) ==
    /\ pc = "idle"
    /\ call.op = "none"
    /\ call' = [NoCall EXCEPT !.op = "send_gmail", !.sender = sender, !.password = password]
    /\ LET cred == gmail_credentials(sender, password)
       IN  /\ log' = (IF sender.some /\ password.some
                      THEN <<Debug(Some(<<"parameter">>))>>
                      ELSE <<>>)
                     \o (IF ~cred.sender.some \/ ~cred.password.some
                         THEN <<Error(Some(<<"credentials">>))>>
                         ELSE <<>>)
           /\ smtp' = email_session(GmailHost, GmailPort, cred.sender, cred.password,
                                    recipients)
    /\ pc' = "smtp_connect"
    /\ UNCHANGED <<env, transport, outcome>>

\* smtplib.SMTP_SSL(smtp_host, smtp_port): the session opens, or the call raises
SmtpConnect ==
    /\ pc = "smtp_connect"
    /\ \E connected \in BOOLEAN :
        IF connected
        THEN /\ smtp' = [smtp EXCEPT !.opened = @ + 1]
             /\ transport' = Append(transport, [op |-> "smtp_open", host |-> smtp.host,
                                                port |-> smtp.port])
             /\ pc' = "smtp_login"
             /\ UNCHANGED outcome
        ELSE /\ outcome' = Raise("TransportError", "Transport", <<>>)
             /\ pc' = "done"
             /\ UNCHANGED <<smtp, transport>>
    /\ UNCHANGED <<env, call, log>>

\* smtp_server.login(sender, password)
SmtpLogin ==
    /\ pc = "smtp_login"
    /\ transport' = Append(transport, [op |-> "smtp_login", user |-> smtp.sender,
                                       password |-> smtp.password])
    /\ \E authenticated \in BOOLEAN :
        IF authenticated
        THEN pc' = "smtp_sendmail" /\ UNCHANGED smtp
        ELSE pc' = "smtp_exit" /\ smtp' = [smtp EXCEPT !.failed = TRUE]
    /\ UNCHANGED <<env, call, outcome, log>>

\* smtp_server.sendmail(sender, recipients, msg.as_string())
SmtpSendmail ==
    /\ pc = "smtp_sendmail"
    /\ transport' = Append(transport, [op |-> "smtp_sendmail", from_addr |-> smtp.sender,
                                       to_addrs |-> smtp.recipients])
    /\ \E accepted \in BOOLEAN :
        IF accepted
        THEN UNCHANGED smtp
        ELSE smtp' = [smtp EXCEPT !.failed = TRUE]
    /\ pc' = "smtp_exit"
    /\ UNCHANGED <<env, call, outcome, log>>

\* a plausible slip: the session is closed after sendmail, outside any with
\* statement, so that a failure leaves it open
SmtpExitOnSuccessOnly ==
    /\ pc = "smtp_exit"
    /\ IF smtp.failed
       THEN /\ outcome' = Raise("TransportError", "Transport", <<>>)
            /\ UNCHANGED <<smtp, transport, log>>
       ELSE /\ smtp' = [smtp EXCEPT !.closed = @ + 1]
            /\ transport' = Append(transport, [op |-> "smtp_close"])
            /\ outcome' = Return(<<>>)
            /\ log' = Append(log, Debug(Some(Body)))
    /\ pc' = "done"
    /\ UNCHANGED <<env, call>>

\* the end of the with statement: the session is closed, then the failure
\* goes on to the caller, or the function logs and returns
SmtpExit ==
    /\ pc = "smtp_exit"
    /\ smtp' = [smtp EXCEPT !.closed = @ + 1]
    /\ transport' = Append(transport, [op |-> "smtp_close"])
    /\ IF smtp.failed
       THEN /\ outcome' = Raise("TransportError", "Transport", <<>>)
            /\ UNCHANGED log
       ELSE /\ outcome' = Return(<<>>)
            /\ log' = Append(log, Debug(Some(Body)))
    /\ pc' = "done"
    /\ UNCHANGED <<env, call>>

ArgSenders == {None, Some(<<"arg_user">>)}
ArgPasswords == {None, Some(<<"arg_password">>)}

SendEmail ==
    /\ pc = "idle"
    /\ \E recipients \in EmailRecipientArgs :
        send_email(OtherHost, Some(<<"arg_user">>), Some(<<"arg_password">>), recipients)

SendGmail ==
    /\ pc = "idle"
    /\ \E sender \in ArgSenders, password \in ArgPasswords, recipients \in EmailRecipientArgs :
        send_gmail(sender, password, recipients)

Init ==
    /\ env \in Envs
    /\ pc = "idle"
    /\ call = NoCall
    /\ transport = <<>>
    /\ outcome = NoOutcome
    /\ log = <<>>
    /\ smtp = NoSmtp

Next ==
    \/ SendSms
    \/ SendPushover
    \/ SendEmail
    \/ SendGmail
    \/ SmtpConnect
    \/ SmtpLogin
    \/ SmtpSendmail
    \/ SmtpExit

Spec == Init /\ [][Next]_vars

(***************************************************************************)
(* The normalizer's claims.                                                *)
(***************************************************************************)
\* the digit characters of s, concatenated in order
DigitsOf(s) == SelectSeq(s, IsDigit)

Validated == call.op = "validate" /\ pc = "done"

\* C1: whenever the digits of the raw input number fewer than 10 or more
\* than 12, the normalizer raises InvalidPhoneNumber and returns nothing
\* (as the claim states it, strings without any digit included).
C1_RejectsOutOfRange ==
    (Validated /\ (Len(DigitsOf(call.raw)) < 10 \/ Len(DigitsOf(call.raw)) > 12))
        => (outcome.kind = "raise" /\ outcome.error.kind = "InvalidPhoneNumber")

\* C2: a raw input with 10 to 12 digits d is normalized to "+1" d when d has
\* 10 digits and to "+" d otherwise; the result is '+' followed by 11 or 12
\* digits and nothing else.
C2_NormalizesInRange ==
    LET d == DigitsOf(call.raw)
    IN  (Validated /\ Len(d) >= 10 /\ Len(d) <= 12)
            => /\ outcome.kind = "return"
               /\ outcome.value = (IF Len(d) = 10 THEN <<"+", "1">> \o d ELSE <<"+">> \o d)
               /\ Head(outcome.value) = "+"
               /\ Len(Tail(outcome.value)) \in {11, 12}
               /\ \A i \in 2..Len(outcome.value) : IsDigit(outcome.value[i])

\* a 12-digit number written with punctuation has been normalized
C2_Witness ==
    /\ Validated
    /\ Len(DigitsOf(call.raw)) = 12
    /\ Len(call.raw) > 12
    /\ outcome.kind = "return"

(***************************************************************************)
(* The claims about the dispatch operations.                               *)
(***************************************************************************)
SmsDone == pc = "done" /\ call.op = "send_sms"
PushoverDone == pc = "done" /\ call.op = "send_pushover"
EmailDone == pc = "done" /\ call.op \in {"send_email", "send_gmail"}

\* the normalizer rejects ph
Rejected(ph) == validate_phone_number(ph).kind = "raise"
\* the normalized form of ph
Normal(ph) == validate_phone_number(ph).value
\* what the normalizer's error message quotes for ph
Quoted(ph) == IF Len(DigitsOf(ph)) > 0 THEN DigitsOf(ph) ELSE ph

ConnectionString == env["AZURE_SMS_CONNECTION_STRING"]
FromNumber == env["AZURE_SMS_NUMBER"]

\* the call's recipients come as one identifier: the argument, or SMS_NUMBER
SingleRecipient ==
    \/ call.recipients.tag = "str"
    \/ call.recipients.tag = "none" /\ env["SMS_NUMBER"].some
\* there are no recipients at all
RecipientsAbsent == call.recipients.tag = "none" /\ ~env["SMS_NUMBER"].some
\* the raw recipients of the call, in input order
InputRecipients ==
    IF call.recipients.tag = "str" THEN <<call.recipients.str>>
    ELSE IF call.recipients.tag = "list" THEN call.recipients.list
    ELSE IF env["SMS_NUMBER"].some THEN <<env["SMS_NUMBER"].val>>
    ELSE <<>>
SomeRecipientRejected == \E i \in 1..Len(InputRecipients) : Rejected(InputRecipients[i])
RecipientsValid == ~RecipientsAbsent /\ ~SomeRecipientRejected
FirstRejectedInput ==
    InputRecipients[CHOOSE i \in 1..Len(InputRecipients) :
                        /\ Rejected(InputRecipients[i])
                        /\ \A j \in 1..(i - 1) : ~Rejected(InputRecipients[j])]

Events(op) == {i \in 1..Len(transport) : transport[i].op = op}
Raised(kind) == outcome.kind = "raise" /\ outcome.error.kind = kind
ErrorLogged == \E i \in 1..Len(log) : log[i].level = "error"

\* C3: in send_gmail and send_pushover, a credential the caller supplied is
\* the one handed to the transport, whatever the environment holds and
\* whether or not the other credential was supplied.
C3_ExplicitWins ==
    \A i \in 1..Len(transport) :
        /\ (call.op = "send_gmail" /\ transport[i].op = "smtp_login")
              => /\ call.sender.some => transport[i].user = call.sender
                 /\ call.password.some => transport[i].password = call.password
        /\ (call.op = "send_pushover" /\ transport[i].op = "post")
              => /\ call.api_token.some => transport[i].token = call.api_token
                 /\ call.user_key.some => transport[i].user = call.user_key

\* C4: a send_sms call whose recipient list holds a recipient the normalizer
\* rejects raises InvalidPhoneNumber and never reaches the SMS transport,
\* wherever the recipient stands and however many others are valid.
C4_NoPartialSend ==
    (SmsDone /\ call.recipients.tag = "list" /\ SomeRecipientRejected)
        => (Raised("InvalidPhoneNumber") /\ transport = <<>>)

\* a fully configured call with a valid recipient followed by a malformed one
C4_Witness ==
    /\ SmsDone
    /\ call.recipients.tag = "list"
    /\ Len(call.recipients.list) >= 2
    /\ ~Rejected(call.recipients.list[1])
    /\ Rejected(call.recipients.list[2])
    /\ ConnectionString.some /\ FromNumber.some /\ ~Rejected(FromNumber.val)
    /\ Raised("InvalidPhoneNumber")

\* C5: with valid recipients, a send_sms call that finds the connection
\* string or the sending number absent raises MissingCredentials naming a
\* key that is absent, and never reaches the SMS transport.
C5_MissingCredentials ==
    (SmsDone /\ RecipientsValid /\ (~ConnectionString.some \/ ~FromNumber.some))
        => /\ Raised("MissingCredentials")
           /\ outcome.error.type = "EnvironmentError"
           /\ \E k \in {"AZURE_SMS_CONNECTION_STRING", "AZURE_SMS_NUMBER"} :
                  outcome.error.detail = <<k>> /\ ~env[k].some
           /\ transport = <<>>

\* the connection string is there and the sending number is not
C5_Witness ==
    /\ SmsDone
    /\ RecipientsValid
    /\ ConnectionString.some /\ ~FromNumber.some
    /\ outcome.error.detail = <<"AZURE_SMS_NUMBER">>

\* the one sms_send event of a call
TheSend == transport[CHOOSE i \in Events("sms_send") : TRUE]
NormalizedInputs == [i \in 1..Len(InputRecipients) |-> Normal(InputRecipients[i])]

C8_SessionReleased ==
    /\ smtp.opened <= 1
    /\ smtp.closed <= smtp.opened
    /\ Cardinality(Events("smtp_open")) = smtp.opened
    /\ Cardinality(Events("smtp_close")) = smtp.closed
    /\ EmailDone => smtp.closed = smtp.opened
    /\ pc \in {"smtp_login", "smtp_sendmail", "smtp_exit"} => smtp.opened = 1

\* the login failed, nothing was transmitted, and the session was closed
C8_Witness ==
    /\ EmailDone
    /\ smtp.failed
    /\ Events("smtp_sendmail") = {}
    /\ smtp.opened = 1 /\ smtp.closed = 1
    /\ outcome.kind = "raise"

\* C9 as stated: with valid recipients, a send_sms call that finds the
\* connection string or the sending number set to the empty string raises
\* MissingCredentials and never reaches the SMS transport.
C9_EmptyIsAbsent ==
    (SmsDone /\ RecipientsValid
        /\ (ConnectionString = Some(<<>>) \/ FromNumber = Some(<<>>)))
        => (Raised("MissingCredentials") /\ transport = <<>>)

\* C9 amended: a field without an explicit value takes the value of its key
\* whenever the key is present, empty or not.  MissingCredentials and
\* MissingRecipients are raised only for a key that is absent; an empty
\* connection string goes to the SMS client, an empty sending number or an
\* empty SMS_NUMBER raises InvalidPhoneNumber before the transport.
C9_PresentIsResolved ==
    /\ SmsDone =>
        /\ Raised("MissingCredentials")
              => \E k \in {"AZURE_SMS_CONNECTION_STRING", "AZURE_SMS_NUMBER"} :
                     outcome.error.detail = <<k>> /\ ~env[k].some
        /\ Raised("MissingRecipients") => RecipientsAbsent
        /\ (RecipientsValid /\ ConnectionString = Some(<<>>)
                /\ FromNumber.some /\ ~Rejected(FromNumber.val))
              => /\ Len(transport) >= 1
                 /\ transport[1] = [op |-> "sms_create", connection_string |-> <<>>]
        /\ (RecipientsValid /\ ConnectionString.some /\ FromNumber = Some(<<>>))
              => (Raised("InvalidPhoneNumber") /\ transport = <<>>)
        /\ (call.recipients.tag = "none" /\ env["SMS_NUMBER"] = Some(<<>>))
              => (Raised("InvalidPhoneNumber") /\ transport = <<>>)
    /\ PushoverDone =>
        /\ ~call.api_token.some => transport[1].token = env["PUSHOVER_API_KEY"]
        /\ ~call.user_key.some => transport[1].user = env["PUSHOVER_USER_KEY"]
    /\ \A i \in Events("smtp_login") :
        call.op = "send_gmail" =>
            /\ ~call.sender.some => transport[i].user = env["GMAIL_USERNAME"]
            /\ ~call.password.some => transport[i].password = env["GMAIL_PASSWORD"]

\* an empty connection string has reached the SMS client
C9_Witness ==
    /\ SmsDone
    /\ RecipientsValid
    /\ ConnectionString = Some(<<>>)
    /\ Len(transport) >= 1
    /\ transport[1].op = "sms_create"
    /\ transport[1].connection_string = <<>>

\* C10: send_sms reports the first failing check of: recipients absent
\* (MissingRecipients), a recipient rejected (InvalidPhoneNumber), connection
\* string absent (MissingCredentials), sending number absent
\* (MissingCredentials), sending number rejected (InvalidPhoneNumber); the
\* transport is reached only when all five pass.
C10_CheckOrder ==
    SmsDone =>
        IF RecipientsAbsent
        THEN Raised("MissingRecipients") /\ transport = <<>>
        ELSE IF SomeRecipientRejected
        THEN /\ Raised("InvalidPhoneNumber")
             /\ outcome.error.detail = Quoted(FirstRejectedInput)
             /\ transport = <<>>
        ELSE IF ~ConnectionString.some
        THEN /\ Raised("MissingCredentials")
             /\ outcome.error.detail = <<"AZURE_SMS_CONNECTION_STRING">>
             /\ transport = <<>>
        ELSE IF ~FromNumber.some
        THEN /\ Raised("MissingCredentials")
             /\ outcome.error.detail = <<"AZURE_SMS_NUMBER">>
             /\ transport = <<>>
        ELSE IF Rejected(FromNumber.val)
        THEN /\ Raised("InvalidPhoneNumber")
             /\ outcome.error.detail = Quoted(FromNumber.val)
             /\ transport = <<>>
        ELSE /\ Len(transport) >= 1
             /\ transport[1].op = "sms_create"
             /\ ~Raised("MissingRecipients")
             /\ ~Raised("InvalidPhoneNumber")
             /\ ~Raised("MissingCredentials")

\* a rejected recipient, no connection string and no sending number at once
C10_Witness ==
    /\ SmsDone
    /\ SomeRecipientRejected
    /\ ~ConnectionString.some
    /\ ~FromNumber.some
    /\ Raised("InvalidPhoneNumber")
====
